---- MODULE Spec2Model ----
(***************************************************************************)
(* Model of git-tracker's `find` command: the filesystem walker            *)
(* (src/fs.rs) and the three-stage pipeline of src/cmd/find.rs (locals     *)
(* worker, remotes worker, storage worker, orchestrator shutdown).         *)
(*                                                                         *)
(* Paths are sequences of components; an absolute path starts with "/".    *)
(* Option<T> is a sequence of length 0 (None) or 1 (Some).                 *)
(***************************************************************************)
EXTENDS Naturals, Integers, Sequences, FiniteSets, TLC

VARIABLES
    \* ---- environment (constant during a run) ----
    cwd,           \* working directory of the process (relative paths resolve here)
    links,         \* the filesystem's symbolic links: link path -> raw target
    ioerr,         \* <<op, path>> pairs whose syscall fails ("meta", "link", "dir")
    repos,         \* the directories git accepts as a --git-dir
    facts,         \* what the inspector finds at each location: None when it fails
    bad_rows,      \* the locations whose upsert the store rejects
    past,          \* the table as each earlier run of the program left it
    hangs,         \* the locations whose inspection never returns
    git,           \* what the git commands print for each location
    \* ---- Cmd fields / arguments of find_dirs ----
    search_paths,  \* canonicalized search roots (find.rs:35-41)
    follow,        \* Cmd.follow
    ignore_paths,  \* Cmd.ignore_paths as a set (find.rs:33-34)
    \* ---- walker (flat_map over search_paths of Dirs) ----
    roots_left,    \* search paths the flat_map has not opened yet
    frontier,      \* Dirs.frontier of the currently open walker
    git_dirs,      \* "open" while the iterator can still be polled, "end" after None
    \* ---- walker history ----
    enumerated,    \* directories whose entries were pushed on the frontier
    seeds,         \* paths pushed other than by enumeration: roots and link targets
    \* ---- locals worker ----
    ltasks,        \* per-directory futures of for_each_concurrent, by <<dir, occurrence>>
    locals,        \* DashSet<Link>
    unique,        \* DashSet<String> of addresses already forwarded
    lstage,        \* "run" | "done"
    \* ---- channels ----
    urls,          \* queue of the address channel
    urls_tx,       \* TRUE while the address sender is alive
    urls_rx,       \* TRUE while the address receiver is alive
    views,         \* queue of the Storage channel (keys of sent)
    views_tx,      \* holders of a live clone of the Storage sender
    views_rx,      \* TRUE while the Storage receiver is alive
    \* ---- remotes worker ----
    rtasks, remotes_ok, remotes_err, rstage,
    \* ---- storage worker ----
    stasks,
    db,            \* table views: each row with the number of its copies
    sstage,
    \* ---- orchestrator ----
    orch,          \* position in Cmd::run after the spawns
    counts,        \* the "Final counts." event, <<>> until reported
    panicked,      \* an unreachable!() was executed
    \* ---- pipeline history ----
    sent,          \* every View handed to views_tx.send, by sending future
    urls_sent      \* every address handed to urls_tx.send, by <<dir, occurrence, remote name>>

envvars   == <<cwd, links, ioerr, repos, facts, bad_rows, past, hangs, git,
               search_paths, follow, ignore_paths>>
walkvars  == <<roots_left, frontier, git_dirs, enumerated, seeds>>
localvars == <<ltasks, locals, unique, lstage>>
chanvars  == <<urls, urls_tx, urls_rx, views, views_tx, views_rx>>
remvars   == <<rtasks, remotes_ok, remotes_err, rstage>>
stovars   == <<stasks, db, sstage>>
orchvars  == <<orch, counts, panicked>>
histvars  == <<sent, urls_sent>>
vars == <<envvars, walkvars, localvars, chanvars, remvars, stovars, orchvars, histvars>>

----------------------------------------------------------------------------
(* Bounds *)

\* at most this many directories are taken from the walker in one run
MaxDirs == 3
\* the walker's frontier holds at most this many paths
MaxFrontier == 6
\* the program is run at most this many times on the same database file
MaxRuns == 2

----------------------------------------------------------------------------
(* The filesystem *)

Root == <<"/">>
R    == <<"/", "r">>
RGit == <<"/", "r", ".git">>
RGitGit == <<"/", "r", ".git", ".git">>
RP   == <<"/", "r", "p">>
RPGit == <<"/", "r", "p", ".git">>
RF   == <<"/", "r", "f">>
RL   == <<"/", "r", "l">>
S    == <<"/", "s">>
SGit == <<"/", "s", ".git">>
SL   == <<"/", "s", "l">>
P    == <<"/", "p">>
PL   == <<"/", "p", "l">>

DirPaths  == {Root, R, RGit, RGitGit, RP, RPGit, S, SGit, P}
FilePaths == {RF}

IsAbs(p) == p # <<>> /\ p[1] = "/"
\* how the OS resolves a path given to a syscall
Abs(p) == IF IsAbs(p) THEN p ELSE cwd \o p
Parent(p) == SubSeq(p, 1, Len(p) - 1)
IsPrefix(p, q) == Len(p) <= Len(q) /\ SubSeq(q, 1, Len(p)) = p
IsProperPrefix(p, q) == Len(p) < Len(q) /\ IsPrefix(p, q)

\* lstat: the kind of the node itself, links not followed
LKind(p) ==
    LET a == Abs(p) IN
    IF a \in DOMAIN links THEN "link"
    ELSE IF a \in DirPaths THEN "dir"
    ELSE IF a \in FilePaths THEN "file"
    ELSE "none"

\* where the OS goes when it follows the link at absolute path a
LinkDest(a) == IF IsAbs(links[a]) THEN links[a] ELSE Parent(a) \o links[a]

\* stat: the kind after following links; "loop" is ELOOP
RECURSIVE StatFrom(_, _)
StatFrom(a, fuel) ==
    IF a \in DOMAIN links
    THEN IF fuel = 0 THEN "loop" ELSE StatFrom(LinkDest(a), fuel - 1)
    ELSE IF a \in DirPaths THEN "dir"
    ELSE IF a \in FilePaths THEN "file"
    ELSE "none"
Stat(p) == StatFrom(Abs(p), Cardinality(DOMAIN links))

\* Path::try_exists(..).is_ok_and(|exists| exists)
try_exists(p) == Stat(p) \in {"dir", "file"}

\* Path::file_name: the last component, None for "/"
file_name(p) == IF p = <<>> \/ p = Root THEN <<>> ELSE <<p[Len(p)]>>

\* (mutation: entries whose name starts with a dot are not reported)
EntriesNoHidden(p) ==
    LET a == Abs(p) IN
    {p \o <<n[Len(n)]>> : n \in {q \in DirPaths \cup FilePaths \cup DOMAIN links :
                                    q # Root /\ Parent(q) = a /\ q[Len(q)] # ".git"}}
\* the entries read_dir reports for p, each as p joined with the entry's name
Entries(p) ==
    LET a == Abs(p) IN
    {p \o <<n[Len(n)]>> : n \in {q \in DirPaths \cup FilePaths \cup DOMAIN links :
                                    q # Root /\ Parent(q) = a}}

\* all orders in which a set can be listed
RECURSIVE Orders(_)
Orders(s) ==
    IF s = {} THEN {<<>>}
    ELSE UNION {{<<x>> \o o : o \in Orders(s \ {x})} : x \in s}

Last(s) == s[Len(s)]
Front(s) == SubSeq(s, 1, Len(s) - 1)
Range(s) == {s[i] : i \in 1..Len(s)}
Values(f) == {f[x] : x \in DOMAIN f}

None == <<>>
Some(x) == <<x>>

\* the empty map
NoTasks == [x \in {} |-> None]

----------------------------------------------------------------------------
(* The walker: Dirs::next, one iteration of its while loop per step *)

Marker == ".git"

Fails(op, p) == <<op, Abs(p)>> \in ioerr

\* (mutation: a matched directory is returned and its entries are pushed too)
VisitDescend(path) ==
    IF path \notin ignore_paths /\ try_exists(path) /\ LKind(path) = "dir"
    THEN {[push |-> o,
           yield |-> IF file_name(path) = Some(Marker) THEN Some(path) ELSE None,
           how |-> "dir"] : o \in Orders(Entries(path))}
    ELSE {[push |-> <<>>, yield |-> None, how |-> "other"]}

\* (mutation: links are followed whatever the follow flag says)
VisitFollowAlways(path) ==
    IF path \in ignore_paths \/ ~try_exists(path) THEN
        {[push |-> <<>>, yield |-> None, how |-> "ignored"]}
    ELSE IF LKind(path) = "link" THEN
        {[push |-> <<links[Abs(path)]>>, yield |-> None, how |-> "link"]}
    ELSE IF LKind(path) = "dir" THEN
        IF file_name(path) = Some(Marker) THEN
            {[push |-> <<>>, yield |-> Some(path), how |-> "match"]}
        ELSE
            {[push |-> o, yield |-> None, how |-> "dir"] : o \in Orders(Entries(path))}
    ELSE
        {[push |-> <<>>, yield |-> None, how |-> "other"]}

\* (mutation: a path under an ignored path is ignored too)
VisitIgnorePrefix(path) ==
    IF (\E g \in ignore_paths : IsPrefix(g, path)) \/ ~try_exists(path) THEN
        {[push |-> <<>>, yield |-> None, how |-> "ignored"]}
    ELSE IF LKind(path) = "link" THEN
        IF follow THEN {[push |-> <<links[Abs(path)]>>, yield |-> None, how |-> "link"]}
        ELSE {[push |-> <<>>, yield |-> None, how |-> "link_skipped"]}
    ELSE IF LKind(path) = "dir" THEN
        IF file_name(path) = Some(Marker) THEN
            {[push |-> <<>>, yield |-> Some(path), how |-> "match"]}
        ELSE
            {[push |-> o, yield |-> None, how |-> "dir"] : o \in Orders(Entries(path))}
    ELSE
        {[push |-> <<>>, yield |-> None, how |-> "other"]}

\* the outcomes of one iteration of the loop on the popped path:
\* what is pushed on the frontier and what is returned (None: keep looping)
Visit(path) ==
    IF path \in ignore_paths THEN
        {[push |-> <<>>, yield |-> None, how |-> "ignored"]}
    ELSE IF ~try_exists(path) THEN
        {[push |-> <<>>, yield |-> None, how |-> "gone"]}
    ELSE IF Fails("meta", path) THEN
        {[push |-> <<>>, yield |-> None, how |-> "meta_err"]}
    ELSE IF LKind(path) = "link" THEN
        IF ~follow THEN
            {[push |-> <<>>, yield |-> None, how |-> "link_skipped"]}
        ELSE IF Fails("link", path) THEN
            {[push |-> <<>>, yield |-> None, how |-> "link_err"]}
        ELSE
            {[push |-> <<links[Abs(path)]>>, yield |-> None, how |-> "link"]}
    ELSE IF LKind(path) = "dir" THEN
        IF file_name(path) = Some(Marker) THEN
            {[push |-> <<>>, yield |-> Some(path), how |-> "match"]}
        ELSE IF Fails("dir", path) THEN
            {[push |-> <<>>, yield |-> None, how |-> "dir_err"]}
        ELSE
            {[push |-> o, yield |-> None, how |-> "dir"] :
                o \in Orders({e \in Entries(path) : ~Fails("entry", e)})}
    ELSE
        {[push |-> <<>>, yield |-> None, how |-> "other"]}

\* (mutation: a worker completes without awaiting its futures)
AllDoneIgnored(tasks) == TRUE
\* every future of a for_each_concurrent has completed
AllDone(tasks) == \A i \in DOMAIN tasks : tasks[i].pc = "done"

\* (mutation: a limit of one, the next item waits for the pending future)
HasRoomForOne(tasks) == AllDone(tasks)
\* for_each_concurrent(None, ..): no limit on the futures in flight, the
\* stream's next item is taken whatever futures are pending
HasRoom(tasks) == TRUE

\* (mutation: a failed syscall ends the walk, the frontier is given up)
RestDropOnError(fr, how) ==
    IF how \in {"meta_err", "link_err", "dir_err"} THEN <<>> ELSE Front(fr)
\* the frontier the loop goes on with after handling the popped path,
\* whatever the outcome: an Err arm only logs
Rest(fr, how) == Front(fr)

\* the future for_each_concurrent creates for a directory of the stream
NewLocal(dir) == [dir |-> dir, pc |-> "probe", repo |-> None, todo |-> {}]

\* how many times the walker returned path
Yields(path) == Cardinality({id \in DOMAIN ltasks : id[1] = path})
Yielded == {id[1] : id \in DOMAIN ltasks}

\* Dirs::next pops a path and handles it; a returned path becomes the
\* stream's next item, for which for_each_concurrent creates a future
WalkPop ==
    /\ lstage = "run" /\ git_dirs = "open" /\ frontier # <<>>
    /\ \E o \in Visit(Last(frontier)) :
        /\ o.yield = None \/ (Cardinality(DOMAIN ltasks) < MaxDirs /\ HasRoom(ltasks))
        /\ Len(frontier) - 1 + Len(o.push) <= MaxFrontier
        /\ frontier' = Rest(frontier, o.how) \o o.push
        /\ ltasks' = IF o.yield = None THEN ltasks
                      ELSE ltasks @@ (<<o.yield[1], Yields(o.yield[1]) + 1>> :>
                                        NewLocal(o.yield[1]))
        /\ enumerated' = IF o.how = "dir" THEN enumerated \cup {Last(frontier)}
                         ELSE enumerated
        /\ seeds' = IF o.how = "link" THEN seeds \cup Range(o.push) ELSE seeds
    /\ UNCHANGED <<envvars, roots_left, git_dirs, locals, unique, lstage,
                   chanvars, remvars, stovars, orchvars, histvars>>

\* flat_map opens the walker of the next search path: find_dirs
WalkOpen ==
    /\ lstage = "run" /\ git_dirs = "open" /\ frontier = <<>>
    /\ roots_left # <<>>
    /\ frontier' = <<Head(roots_left)>>
    /\ roots_left' = Tail(roots_left)
    /\ seeds' = seeds \cup {Head(roots_left)}
    /\ UNCHANGED <<envvars, git_dirs, enumerated, localvars,
                   chanvars, remvars, stovars, orchvars, histvars>>

\* the last walker returned None: the stream of directories has ended
WalkEnd ==
    /\ lstage = "run" /\ git_dirs = "open" /\ frontier = <<>>
    /\ roots_left = <<>>
    /\ git_dirs' = "end"
    /\ UNCHANGED <<envvars, roots_left, frontier, enumerated, seeds,
                   localvars, chanvars, remvars, stovars, orchvars, histvars>>

----------------------------------------------------------------------------
(* Data model (data.rs) and the inspector (git.rs) *)

Host == "h"
Urls == {"u1", "u2"}
RemoteNames == {"origin", "upstream"}

\* data::Link
Fs(dir) == [tag |-> "Fs", dir |-> dir, url |-> ""]
Net(url) == [tag |-> "Net", dir |-> <<>>, url |-> url]

\* Repo.remotes: HashMap<String, String>
RemoteMaps == UNION {[names -> Urls] : names \in SUBSET RemoteNames}

\* what Repo::read_from_link(..).ok() can be for a directory
LocalResults == {None} \cup {Some([remotes |-> m]) : m \in RemoteMaps}
\* Repo::read_from_link(link).await.ok()
read_from_link(link) ==
    IF link.tag = "Fs" THEN facts[Fs(Abs(link.dir))] ELSE facts[link]

\* ---- the inspection of a repository from what the git commands print:
\* a Result is None for Err(..) and Some(x) for Ok(x); g is the record of
\* one location: desc ("err" when the description file cannot be read),
\* leaves (branch name -> leaf hash, from show-ref), parents0 (leaf hash ->
\* the lines of rev-list --max-parents=0), remotes (from remote -v), cmd_err
\* (the commands that fail) and clone_ok (for an address)

\* git::description
description(g) == IF g.desc = "err" THEN None ELSE Some(g.desc)

\* (mutation: an empty set of roots is accepted)
branch_roots_unchecked(g, leaf_hash) ==
    IF "rev-list" \in g.cmd_err THEN None ELSE Some(g.parents0[leaf_hash])
\* git::branch_roots
branch_roots(g, leaf_hash) ==
    IF "rev-list" \in g.cmd_err THEN None
    ELSE IF g.parents0[leaf_hash] = {} THEN None
    ELSE Some(g.parents0[leaf_hash])

\* git::branch_leaves
branch_leaves(g) == IF "show-ref" \in g.cmd_err THEN None ELSE Some(g.leaves)

\* git::branches
branches(g) ==
    IF branch_leaves(g) = None THEN None
    ELSE LET leaves == branch_leaves(g)[1] IN
         IF \E name \in DOMAIN leaves : branch_roots(g, leaves[name]) = None
         THEN None
         ELSE Some([name \in DOMAIN leaves |->
                      [roots |-> branch_roots(g, leaves[name])[1],
                       leaf |-> leaves[name]]])

\* git::remote_refs
remote_refs(g) == IF "remote" \in g.cmd_err THEN None ELSE Some(g.remotes)

\* Repo::read_from_fs
read_from_fs(g) ==
    IF description(g) = None \/ branches(g) = None \/ remote_refs(g) = None
    THEN None
    ELSE Some([description |-> description(g)[1],
               branches |-> branches(g)[1],
               remotes |-> remote_refs(g)[1]])

\* Repo::read_from_url: clone into a temporary directory, then read_from_fs
read_from_url(g) == IF ~g.clone_ok THEN None ELSE read_from_fs(g)

\* Repo::read_from_link(link).await.ok() from the commands' output
Inspect(link, g) == IF link.tag = "Fs" THEN read_from_fs(g) ELSE read_from_url(g)

\* (mutation: the probe's answer is ignored)
is_repo_always(dir) == TRUE
\* git::is_repo: `git --git-dir=<dir> log` succeeds
is_repo(dir) == Abs(dir) \in repos

\* whether the inspector's call on link comes back
Returns(link) ==
    (IF link.tag = "Fs" THEN Fs(Abs(link.dir)) ELSE link) \notin hangs

\* git::view
view(host, link) == [host |-> host, link |-> link, repo |-> read_from_link(link)]

----------------------------------------------------------------------------
(* Channels *)

\* urls_tx.send(url) by sender who: queued while the receiver lives,
\* otherwise the send fails and the unwrap_or_else panics
UrlsSend(url, who) ==
    /\ urls_sent' = urls_sent @@ (who :> url)
    /\ IF urls_rx THEN urls' = Append(urls, who) /\ UNCHANGED panicked
       ELSE panicked' = TRUE /\ UNCHANGED urls

\* views_tx.send(view) by sender who
ViewsSend(v, who) ==
    /\ sent' = sent @@ (who :> v)
    /\ IF views_rx THEN views' = Append(views, who) /\ UNCHANGED panicked
       ELSE panicked' = TRUE /\ UNCHANGED views

\* the stream over a receiver ends when every sender is dropped and the
\* queue is drained
\* (mutation: an empty address queue is taken for a closed channel)
UrlsClosedWhenEmpty == urls = <<>>
UrlsClosed == ~urls_tx /\ urls = <<>>
\* (mutation: an empty queue is taken for a closed channel)
ViewsClosedWhenEmpty == views = <<>>
ViewsClosed == views_tx = {} /\ views = <<>>


----------------------------------------------------------------------------
(* Locals worker: the future of one directory (find.rs:71-97) *)

\* (mutation: the result of unique.insert is ignored)
InsertedAlways(url) == TRUE
\* unique.insert(url): TRUE when the address was not in the set
Inserted(url) == url \notin unique

\* (mutation: a View without facts is dropped)
SendsViewIfRepo(v) == v.repo # None
\* whether the task hands its View to views_tx.send
SendsView(v) == TRUE

\* if git::is_repo(&dir).await
LocalProbe(i) ==
    /\ ltasks[i].pc = "probe"
    /\ ltasks' = [ltasks EXCEPT ![i].pc = IF is_repo(ltasks[i].dir) THEN "view"
                                          ELSE "done"]
    /\ UNCHANGED <<envvars, walkvars, locals, unique, lstage, chanvars, remvars,
                   stovars, orchvars, histvars>>

\* (mutation: the link is inserted only when the facts were read)
LocalViewCountsFacts(i) ==
    /\ ltasks[i].pc = "view"
    /\ Returns(Fs(ltasks[i].dir))
    /\ LET v == view(Host, Fs(ltasks[i].dir)) IN
        /\ ltasks' = [ltasks EXCEPT ![i].pc = "urls", ![i].repo = v.repo,
                         ![i].todo = IF v.repo = None THEN {}
                                     ELSE DOMAIN v.repo[1].remotes]
        /\ locals' = IF v.repo = None THEN locals
                     ELSE locals \cup {Fs(ltasks[i].dir)}
    /\ UNCHANGED <<envvars, walkvars, unique, lstage, chanvars, remvars,
                   stovars, orchvars, histvars>>
\* git::view(&host, &link).await returns; locals.insert(link)
LocalView(i) ==
    /\ ltasks[i].pc = "view"
    /\ Returns(Fs(ltasks[i].dir))
    /\ LET v == view(Host, Fs(ltasks[i].dir)) IN
        ltasks' = [ltasks EXCEPT ![i].pc = "urls", ![i].repo = v.repo,
                      ![i].todo = IF v.repo = None THEN {}
                                  ELSE DOMAIN v.repo[1].remotes]
    /\ locals' = locals \cup {Fs(ltasks[i].dir)}
    /\ UNCHANGED <<envvars, walkvars, unique, lstage, chanvars, remvars,
                   stovars, orchvars, histvars>>

\* one iteration of the loop over the remotes' addresses
LocalUrl(i) ==
    /\ ltasks[i].pc = "urls"
    /\ \E n \in ltasks[i].todo :
        LET url == ltasks[i].repo[1].remotes[n] IN
        /\ ltasks' = [ltasks EXCEPT ![i].todo = @ \ {n}]
        /\ IF Inserted(url)
           THEN UrlsSend(url, <<i[1], i[2], n>>)
           ELSE UNCHANGED <<urls, urls_sent, panicked>>
        /\ unique' = unique \cup {url}
    /\ UNCHANGED <<envvars, walkvars, locals, lstage, urls_tx, urls_rx, views,
                   views_tx, views_rx, remvars, stovars, orch, counts, sent>>

\* (mutation: the View is sent without awaiting the inspector's call)
LocalSendEarly(i) ==
    /\ ltasks[i].pc = "view" \/ (ltasks[i].pc = "urls" /\ ltasks[i].todo = {})
    /\ ltasks' = [ltasks EXCEPT ![i].pc = "done"]
    /\ ViewsSend([host |-> Host, link |-> Fs(ltasks[i].dir), repo |-> ltasks[i].repo],
                 <<"local", i>>)
    /\ UNCHANGED <<envvars, walkvars, locals, unique, lstage, urls, urls_tx,
                   urls_rx, views_tx, views_rx, remvars, stovars, orch, counts,
                   urls_sent>>

\* views_tx.send(view) after the loop
LocalSend(i) ==
    /\ ltasks[i].pc = "urls" /\ ltasks[i].todo = {}
    /\ ltasks' = [ltasks EXCEPT ![i].pc = "done"]
    /\ LET v == [host |-> Host, link |-> Fs(ltasks[i].dir), repo |-> ltasks[i].repo] IN
        IF SendsView(v) THEN ViewsSend(v, <<"local", i>>)
        ELSE UNCHANGED <<views, sent, panicked>>
    /\ UNCHANGED <<envvars, walkvars, locals, unique, lstage, urls, urls_tx,
                   urls_rx, views_tx, views_rx, remvars, stovars, orch, counts,
                   urls_sent>>

\* for_each_concurrent completes: the stream ended and every future is done;
\* the worker's future is dropped with the urls_tx and views_tx it owns
LocalsFinish ==
    /\ lstage = "run" /\ git_dirs = "end" /\ AllDone(ltasks)
    /\ lstage' = "done"
    /\ urls_tx' = FALSE
    /\ views_tx' = views_tx \ {<<"locals", <<>>>>}
    /\ UNCHANGED <<envvars, walkvars, ltasks, locals, unique, urls, urls_rx,
                   views, views_rx, remvars, stovars, orchvars, histvars>>

----------------------------------------------------------------------------
(* Remotes worker (find.rs:105-142) *)

\* (mutation: every outcome is counted as a success)
ClassifyAllOk(v) == "ok"
\* the tracking set a View's link is inserted into
Classify(v) == IF v.repo # None THEN "ok" ELSE "err"

\* (mutation: the temporary directory is removed on the success path only)
TempHeldOnError(result) == result = None
\* whether the TempDir of read_from_url outlives the call that returned
\* result: it is a local of the function, dropped on every way out
TempHeld(result) == FALSE

\* the stream yields an address; the closure clones views_tx for its
\* future, whose first poll runs read_from_url up to the clone's await,
\* tempfile::tempdir() included
RemotePull ==
    /\ rstage = "run" /\ urls # <<>>
    /\ HasRoom(rtasks)
    /\ rtasks' = rtasks @@ (Head(urls) :>
                    [url |-> urls_sent[Head(urls)], pc |-> "view", repo |-> None,
                     tmp |-> TRUE])
    /\ urls' = Tail(urls)
    /\ views_tx' = views_tx \cup {<<"remote", Head(urls)>>}
    /\ UNCHANGED <<envvars, walkvars, localvars, urls_tx, urls_rx, views,
                   views_rx, remotes_ok, remotes_err, rstage, stovars, orchvars,
                   histvars>>

\* (mutation: the future also forwards an address of the facts it read)
RemoteViewForwards(j) ==
    /\ rtasks[j].pc = "view"
    /\ Returns(Net(rtasks[j].url))
    /\ LET v == view(Host, Net(rtasks[j].url))
           new == IF v.repo = None THEN {}
                  ELSE {n \in DOMAIN v.repo[1].remotes :
                            v.repo[1].remotes[n] \notin unique}
       IN
        /\ rtasks' = [rtasks EXCEPT ![j].pc = "done", ![j].repo = v.repo,
                                     ![j].tmp = TempHeld(v.repo)]
        /\ remotes_ok' = IF Classify(v) = "ok" THEN remotes_ok \cup {v.link}
                         ELSE remotes_ok
        /\ remotes_err' = IF Classify(v) = "err" THEN remotes_err \cup {v.link}
                          ELSE remotes_err
        /\ ViewsSend(v, <<"remote", j>>)
        /\ IF new = {} THEN UNCHANGED <<urls, urls_sent, unique>>
           ELSE \E n \in new :
                LET who == <<j[1], j[2] + MaxDirs, n>> IN
                /\ urls_sent' = urls_sent @@ (who :> v.repo[1].remotes[n])
                /\ urls' = Append(urls, who)
                /\ unique' = unique \cup {v.repo[1].remotes[n]}
    /\ views_tx' = views_tx \ {<<"remote", j>>}
    /\ UNCHANGED <<envvars, walkvars, ltasks, locals, lstage, urls_tx, urls_rx,
                   views_rx, rstage, stovars, orch, counts>>
\* git::view returns; classify; send; the future ends and drops its clone
RemoteView(j) ==
    /\ rtasks[j].pc = "view"
    /\ Returns(Net(rtasks[j].url))
    /\ LET v == view(Host, Net(rtasks[j].url)) IN
        /\ rtasks' = [rtasks EXCEPT ![j].pc = "done", ![j].repo = v.repo,
                                     ![j].tmp = TempHeld(v.repo)]
        /\ remotes_ok' = IF Classify(v) = "ok" THEN remotes_ok \cup {v.link}
                         ELSE remotes_ok
        /\ remotes_err' = IF Classify(v) = "err" THEN remotes_err \cup {v.link}
                          ELSE remotes_err
        /\ ViewsSend(v, <<"remote", j>>)
    /\ views_tx' = views_tx \ {<<"remote", j>>}
    /\ UNCHANGED <<envvars, walkvars, localvars, urls, urls_tx, urls_rx, views_rx,
                   rstage, stovars, orch, counts, urls_sent>>

\* the address stream ended and every future is done: the worker's future
\* is dropped with urls_rx and the closure's views_tx
RemotesFinish ==
    /\ rstage = "run" /\ UrlsClosed /\ AllDone(rtasks)
    /\ rstage' = "done"
    /\ urls_rx' = FALSE
    /\ views_tx' = views_tx \ {<<"remotes", <<>>>>}
    /\ UNCHANGED <<envvars, walkvars, localvars, urls, urls_tx, views, views_rx,
                   rtasks, remotes_ok, remotes_err, stovars, orchvars, histvars>>

----------------------------------------------------------------------------
(* Storage worker (find.rs:144-174) *)

\* the columns of table views that identify a row
Key(v) == <<v.host, v.link>>

\* the keys that have a row in the table
Keys(table) == {Key(r) : r \in DOMAIN table}

\* (mutation: a plain INSERT, the rows of the same key stay)
UpsertInsert(table, v) ==
    [r \in DOMAIN table \cup {v} |->
        IF r = v THEN (IF v \in DOMAIN table THEN table[v] + 1 ELSE 1)
        ELSE table[r]]
\* INSERT OR REPLACE INTO views (host, link, repo): the rows that conflict
\* with the new one are deleted and the new row is inserted
Upsert(table, v) ==
    [r \in {x \in DOMAIN table : Key(x) # Key(v)} \cup {v} |->
        IF r = v THEN 1 ELSE table[r]]

\* (mutation: the worker gives up at the first failed store)
AfterStoreHalt(ok) == IF ok THEN "run" ELSE "failed"
\* the worker's state after a store_view call returned ok or not
AfterStore(ok) == "run"

StoragePull ==
    /\ sstage = "run" /\ views # <<>>
    /\ stasks' = stasks @@ (Head(views) :> [pc |-> "store", ok |-> FALSE, tries |-> 0])
    /\ views' = Tail(views)
    /\ UNCHANGED <<envvars, walkvars, localvars, urls, urls_tx, urls_rx, views_tx,
                   views_rx, remvars, db, sstage, orchvars, histvars>>

\* storage.store_view(&view).await returns Ok(id) or Err(error)
StoreView(k) ==
    /\ sstage = "run" /\ stasks[k].pc = "store"
    /\ LET ok == sent[k].link \notin bad_rows IN
        /\ stasks' = [stasks EXCEPT ![k].pc = "done", ![k].ok = ok,
                                     ![k].tries = @ + 1]
        /\ db' = IF ok THEN Upsert(db, sent[k]) ELSE db
        /\ sstage' = AfterStore(ok)
        /\ views_rx' = (AfterStore(ok) = "run")
    /\ UNCHANGED <<envvars, walkvars, localvars, urls, urls_tx, urls_rx, views,
                   views_tx, remvars, orchvars, histvars>>

StorageFinish ==
    /\ sstage = "run" /\ ViewsClosed /\ AllDone(stasks)
    /\ sstage' = "done"
    /\ views_rx' = FALSE
    /\ UNCHANGED <<envvars, walkvars, localvars, urls, urls_tx, urls_rx, views,
                   views_tx, remvars, stasks, db, orchvars, histvars>>

----------------------------------------------------------------------------
(* Orchestrator: the end of Cmd::run (find.rs:176-187) *)

AwaitLocals ==
    /\ orch = "await_locals" /\ lstage = "done"
    /\ orch' = "await_remotes"
    /\ UNCHANGED <<envvars, walkvars, localvars, chanvars, remvars, stovars,
                   counts, panicked, histvars>>

AwaitRemotes ==
    /\ orch = "await_remotes" /\ rstage = "done"
    /\ orch' = "drop_views_tx"
    /\ UNCHANGED <<envvars, walkvars, localvars, chanvars, remvars, stovars,
                   counts, panicked, histvars>>

\* (mutation: the orchestrator keeps its clone of views_tx)
DropViewsTxForgotten ==
    /\ orch = "drop_views_tx"
    /\ orch' = "await_storage"
    /\ UNCHANGED <<envvars, walkvars, localvars, chanvars, remvars, stovars,
                   counts, panicked, histvars>>

DropViewsTx ==
    /\ orch = "drop_views_tx"
    /\ views_tx' = views_tx \ {<<"orch", <<>>>>}
    /\ orch' = "await_storage"
    /\ UNCHANGED <<envvars, walkvars, localvars, urls, urls_tx, urls_rx, views,
                   views_rx, remvars, stovars, counts, panicked, histvars>>

\* (mutation: the storage worker is not awaited)
AwaitStorageSkipped ==
    /\ orch = "await_storage"
    /\ orch' = "final_counts"
    /\ UNCHANGED <<envvars, walkvars, localvars, chanvars, remvars, stovars,
                   counts, panicked, histvars>>

AwaitStorage ==
    /\ orch = "await_storage" /\ sstage # "run"
    /\ orch' = "final_counts"
    /\ UNCHANGED <<envvars, walkvars, localvars, chanvars, remvars, stovars,
                   counts, panicked, histvars>>

FinalCounts ==
    /\ orch = "final_counts"
    /\ counts' = Some([locals |-> Cardinality(locals),
                       remotes_ok |-> Cardinality(remotes_ok),
                       remotes_err |-> Cardinality(remotes_err)])
    /\ orch' = "done"
    /\ UNCHANGED <<envvars, walkvars, localvars, chanvars, remvars, stovars,
                   panicked, histvars>>

\* the program is started again with the same arguments on the same
\* database file: Cmd::run from its first line, Storage::connect opening
\* the table as the run before left it
Rerun ==
    /\ orch = "done" /\ Len(past) < MaxRuns - 1
    /\ past' = Append(past, db)
    /\ roots_left' = search_paths /\ frontier' = <<>> /\ git_dirs' = "open"
    /\ enumerated' = {} /\ seeds' = {}
    /\ ltasks' = NoTasks /\ locals' = {} /\ unique' = {} /\ lstage' = "run"
    /\ urls' = <<>> /\ urls_tx' = TRUE /\ urls_rx' = TRUE
    /\ views' = <<>> /\ views_rx' = TRUE
    /\ views_tx' = {<<"orch", <<>>>>, <<"locals", <<>>>>, <<"remotes", <<>>>>}
    /\ rtasks' = NoTasks /\ remotes_ok' = {} /\ remotes_err' = {} /\ rstage' = "run"
    /\ stasks' = NoTasks /\ sstage' = "run"
    /\ orch' = "await_locals" /\ counts' = None /\ panicked' = FALSE
    /\ sent' = NoTasks /\ urls_sent' = NoTasks
    /\ UNCHANGED <<cwd, links, ioerr, repos, facts, bad_rows, hangs, git,
                   search_paths, follow, ignore_paths, db>>

----------------------------------------------------------------------------
(* Initial states *)

NoLinks == NoTasks

\* the state Cmd::run is in after spawning the three workers (find.rs:32-174)
StartWith(paths) ==
    /\ search_paths = paths
    /\ roots_left = paths /\ frontier = <<>> /\ git_dirs = "open"
    /\ enumerated = {} /\ seeds = {}
    /\ ltasks = NoTasks /\ locals = {} /\ unique = {} /\ lstage = "run"
    /\ urls = <<>> /\ urls_tx = TRUE /\ urls_rx = TRUE
    /\ views = <<>> /\ views_tx = {<<"orch", <<>>>>, <<"locals", <<>>>>, <<"remotes", <<>>>>} /\ views_rx = TRUE
    /\ rtasks = NoTasks /\ remotes_ok = {} /\ remotes_err = {} /\ rstage = "run"
    /\ stasks = NoTasks /\ db = NoTasks /\ sstage = "run"
    /\ orch = "await_locals" /\ counts = None /\ panicked = FALSE
    /\ sent = NoTasks /\ urls_sent = NoTasks
    /\ past = <<>>

\* a run in which every inspection returns
Start(paths) == StartWith(paths) /\ hangs = {} /\ git = NoTasks

\* the relative link /r/l -> p next to the absolute link /p/l -> /r
TwoLinks == [x \in {RL, PL} |-> IF x = RL THEN <<"p">> ELSE R]

\* the walker on its own, over many filesystems and arguments
WalkInit ==
    /\ cwd \in {Root, R}
    /\ links \in {NoLinks} \cup
                 {[x \in {RL} |-> t] : t \in {R, RP, RGitGit, S, RL, <<"p">>, <<"/", "x">>}}
                 \cup {[x \in {SL} |-> t] : t \in {RP, <<".git">>}}
                 \cup {TwoLinks}
    /\ ioerr \in {{}, {<<"dir", RP>>}, {<<"meta", RP>>}, {<<"link", RL>>},
                  {<<"entry", RP>>}}
    /\ repos = {} /\ facts = NoTasks /\ bad_rows = {}
    /\ follow \in BOOLEAN
    /\ ignore_paths \in SUBSET {R, RGit, RP}
    /\ \E root \in {Root, R, RP, RGit, S} : Start(<<root>>)

GitDirs == {RGit, RGitGit, RPGit, SGit}
Links == {Fs(d) : d \in GitDirs} \cup {Net(u) : u \in Urls}

\* a remotes map with the one entry origin -> u
Origin(u) == [n \in {"origin"} |-> u]

\* the inspector's answers: the repository under /r/p has any of the
\* possible facts, the others have fixed ones; the clone of u1 names u2 as
\* its own remote and the clone of u2 fails
World(a) ==
    [l \in Links |->
        IF l = Fs(RPGit) THEN a
        ELSE IF l = Fs(SGit) THEN Some([remotes |-> Origin("u1")])
        ELSE IF l = Fs(RGit) THEN Some([remotes |-> Origin("u2")])
        ELSE IF l = Net("u1") THEN Some([remotes |-> Origin("u2")])
        ELSE None]

\* facts naming two addresses under two remote names
TwoRemotes ==
    Some([remotes |-> [n \in RemoteNames |-> IF n = "origin" THEN "u1" ELSE "u2"]])

\* the arguments and the links of one run
Setup(paths, lnk, flw, ign) ==
    /\ links = lnk /\ follow = flw /\ ignore_paths = ign
    /\ Start(paths)

\* the pipeline, started on a few argument lists and filesystems:
\*  - two roots, distinct or the same one twice, for every possible facts
\*    of the repository under /r/p;
\*  - a root with nested directories, with a followed link into the tree,
\*    and three repositories under two roots, with and without failing
\*    probes and failing upserts;
\*  - a followed link to its own parent directory (a cycle);
\*  - a root with a subdirectory or a link on which a syscall fails
Init ==
    /\ cwd = Root
    /\ \/ /\ \E paths \in {<<RP, S>>, <<RP, RP>>} : Setup(paths, NoLinks, FALSE, {})
          /\ ioerr = {}
          /\ repos = {RGit, RPGit, SGit}
          /\ bad_rows = {Fs(RPGit), Net("u1")}
          /\ \E a \in LocalResults : facts = World(a)
       \/ /\ \/ Setup(<<R>>, NoLinks, FALSE, {})
             \/ \E f \in BOOLEAN : Setup(<<R>>, [x \in {RL} |-> RP], f, {RGit})
             \/ Setup(<<R, S>>, NoLinks, FALSE, {})
          /\ ioerr = {}
          /\ repos \in {{RGit, RPGit, SGit}, {RPGit}}
          /\ bad_rows \in {{}, {Fs(RPGit), Net("u1")}}
          /\ facts = World(TwoRemotes)
       \/ /\ Setup(<<S>>, [x \in {SL} |-> S], TRUE, {})
          /\ ioerr = {}
          /\ repos = {RPGit}
          /\ bad_rows = {}
          /\ facts = World(TwoRemotes)
       \/ /\ Setup(<<R>>, [x \in {RL} |-> RP], TRUE, {})
          /\ ioerr \in {{<<"dir", RP>>}, {<<"meta", RP>>}, {<<"link", RL>>},
                        {<<"entry", RP>>}}
          /\ repos = {RGit, RPGit, SGit}
          /\ bad_rows = {}
          /\ facts = World(TwoRemotes)

Next ==
    \/ WalkOpen \/ WalkPop \/ WalkEnd
    \/ \E i \in DOMAIN ltasks :
          LocalProbe(i) \/ LocalView(i) \/ LocalUrl(i) \/ LocalSend(i)
    \/ LocalsFinish
    \/ RemotePull
    \/ \E j \in DOMAIN rtasks : RemoteView(j)
    \/ RemotesFinish
    \/ StoragePull
    \/ \E k \in DOMAIN stasks : StoreView(k)
    \/ StorageFinish
    \/ AwaitLocals \/ AwaitRemotes \/ DropViewsTx \/ AwaitStorage \/ FinalCounts

Spec == Init /\ [][Next]_vars

\* the steps of each worker and of the orchestrator
LocalsStep ==
    \/ WalkOpen \/ WalkPop \/ WalkEnd
    \/ \E i \in DOMAIN ltasks :
          LocalProbe(i) \/ LocalView(i) \/ LocalUrl(i) \/ LocalSend(i)
    \/ LocalsFinish
RemotesStep == RemotePull \/ (\E j \in DOMAIN rtasks : RemoteView(j)) \/ RemotesFinish
StorageStep == StoragePull \/ (\E k \in DOMAIN stasks : StoreView(k)) \/ StorageFinish
OrchStep == AwaitLocals \/ AwaitRemotes \/ DropViewsTx \/ AwaitStorage \/ FinalCounts

\* the runtime keeps polling every spawned task that can make progress, and
\* every store call and every inspector call on a location outside hangs
\* returns
Fairness ==
    /\ WF_vars(LocalsStep)
    /\ WF_vars(RemotesStep)
    /\ WF_vars(StorageStep)
    /\ WF_vars(OrchStep)

\* runs for the termination property: two roots, the same root twice, and
\* a followed link to its own parent directory
LiveInit ==
    /\ cwd = Root
    /\ ioerr = {}
    /\ \/ /\ \E paths \in {<<RP, S>>, <<RP, RP>>} : Setup(paths, NoLinks, FALSE, {})
          /\ repos \in {{RGit, RPGit, SGit}, {RPGit}}
          /\ \E a \in {None, TwoRemotes} : facts = World(a)
       \/ /\ Setup(<<S>>, [x \in {SL} |-> S], TRUE, {})
          /\ repos = {RPGit}
          /\ facts = World(TwoRemotes)
    /\ bad_rows = {Fs(RPGit), Net("u1")}

LiveSpec == LiveInit /\ [][Next]_vars /\ Fairness

\* runs of the program one after the other on the same database file: two
\* roots, or the same root twice, with and without a failing upsert
RerunInit ==
    /\ cwd = Root /\ ioerr = {}
    /\ \E paths \in {<<RP, S>>, <<RP, RP>>} : Setup(paths, NoLinks, FALSE, {})
    /\ repos = {RGit, RPGit, SGit}
    /\ bad_rows \in {{}, {Net("u1")}}
    /\ facts = World(TwoRemotes)

RerunSpec == RerunInit /\ [][Next \/ Rerun]_vars

\* runs in which the inspection of one location, a directory or an
\* address, never returns, next to a run in which every inspection returns
HangInit ==
    /\ cwd = Root /\ ioerr = {}
    /\ links = NoLinks /\ follow = FALSE /\ ignore_paths = {}
    /\ StartWith(<<RP, S>>)
    /\ repos = {RGit, RPGit, SGit}
    /\ bad_rows = {}
    /\ facts = World(TwoRemotes)
    /\ hangs \in {{}, {Fs(RPGit)}, {Fs(SGit)}, {Net("u1")}, {Net("u2")}}
    /\ git = NoTasks

HangSpec == HangInit /\ [][Next]_vars /\ Fairness

\* what git prints for a repository with the branches of leaves, the
\* root commits of zero and the remotes of rem
Raw(leaves, zero, rem, errs) ==
    [desc |-> "text", leaves |-> leaves,
     parents0 |-> [h \in {"h1", "h2"} |-> IF h \in zero THEN {} ELSE {"c0"}],
     remotes |-> rem, cmd_err |-> errs, clone_ok |-> TRUE]

OneBranch == [n \in {"main"} |-> "h1"]
TwoBranches == [n \in {"main", "dev"} |-> IF n = "main" THEN "h1" ELSE "h2"]

\* the repositories a location can hold: sound ones with one or two
\* branches or none, one with a branch whose leaf has no root commit, and
\* one on which rev-list fails
RawRepos ==
    {Raw(OneBranch, {}, Origin("u1"), {}),
     Raw(TwoBranches, {}, Origin("u1"), {}),
     Raw(NoTasks, {"h1"}, Origin("u1"), {}),
     Raw(TwoBranches, {"h2"}, Origin("u1"), {}),
     Raw(OneBranch, {}, Origin("u1"), {"rev-list"})}

\* an address that cannot be cloned
NoClone == [Raw(OneBranch, {}, Origin("u1"), {}) EXCEPT !.clone_ok = FALSE]

\* runs whose inspector answers are computed from what git prints: the
\* repository under /r/p holds any of RawRepos and names u1, the one under
\* /s names u2, and u1 cannot be cloned or its clone holds any of RawRepos
InspectInit ==
    /\ cwd = Root /\ ioerr = {}
    /\ links = NoLinks /\ follow = FALSE /\ ignore_paths = {}
    /\ StartWith(<<RP, S>>)
    /\ hangs = {}
    /\ repos = {RGit, RPGit, SGit}
    /\ bad_rows = {}
    /\ \E a \in RawRepos, b \in RawRepos \cup {NoClone} :
        git = [l \in Links |->
                IF l = Fs(RPGit) THEN a
                ELSE IF l = Net("u1") THEN b
                ELSE IF l = Fs(SGit) THEN Raw(OneBranch, {}, Origin("u2"), {})
                ELSE Raw(OneBranch, {}, Origin("u1"), {})]
    /\ facts = [l \in Links |-> Inspect(l, git[l])]

InspectSpec == InspectInit /\ [][Next]_vars

WalkNext == WalkOpen \/ WalkPop \/ WalkEnd

WalkSpec == WalkInit /\ [][WalkNext]_vars

\* Dirs::next is sequential code: its loop always takes its next step
\* walks for the termination property: no links, a link into the tree, a
\* link to its own parent directory, followed or not, and a relative link
\* next to an absolute one
WalkLiveInit ==
    /\ cwd = Root /\ ioerr = {}
    /\ repos = {} /\ facts = NoTasks /\ bad_rows = {}
    /\ \/ \E f \in BOOLEAN : Setup(<<R>>, NoLinks, f, {})
       \/ \E f \in BOOLEAN : Setup(<<R>>, [x \in {RL} |-> RP], f, {RGit})
       \/ \E f \in BOOLEAN : Setup(<<S>>, [x \in {SL} |-> S], f, {})
       \/ \E root \in {R, P}, ign \in {{}, {RGit, RP}} :
             Setup(<<root>>, TwoLinks, TRUE, ign)

WalkLiveSpec == WalkLiveInit /\ [][WalkNext]_vars /\ WF_vars(WalkNext)

----------------------------------------------------------------------------
(* Properties *)

\* the addresses in the facts of the usable repositories the walker returned
Referenced ==
    UNION {Values(facts[Fs(Abs(id[1]))][1].remotes) :
            id \in {t \in DOMAIN ltasks :
                      Abs(t[1]) \in repos /\ facts[Fs(Abs(t[1]))] # None}}

Forwarded == {urls_sent[e] : e \in DOMAIN urls_sent}

\* C1: no address is sent on the address channel twice and none is
\* inspected twice; when the run is over the addresses sent are exactly the
\* N distinct addresses the usable local repositories reference, and the
\* remotes worker has made exactly N inspections.
C1_Dedup ==
    /\ \A e1, e2 \in DOMAIN urls_sent : urls_sent[e1] = urls_sent[e2] => e1 = e2
    /\ \A e1, e2 \in DOMAIN rtasks : rtasks[e1].url = rtasks[e2].url => e1 = e2
    /\ orch = "done" =>
        /\ Forwarded = Referenced
        /\ Cardinality(DOMAIN rtasks) = Cardinality(Referenced)
        /\ AllDone(rtasks)

\* two repositories name u1, one of them under two remote names or next to
\* u2, and the run is over
C1_Witness ==
    /\ orch = "done"
    /\ Referenced = Urls
    /\ \E t1, t2 \in DOMAIN ltasks :
        /\ t1 # t2
        /\ ltasks[t1].repo # None /\ ltasks[t2].repo # None
        /\ "u1" \in Values(ltasks[t1].repo[1].remotes)
        /\ "u1" \in Values(ltasks[t2].repo[1].remotes)

\* C2: once the storage worker's receive loop has ended, the locals worker
\* and the remotes worker are complete and the orchestrator has dropped its
\* clone of the sender; the orchestrator drops it only after both workers
\* are complete.
C2_StorageClosesLast ==
    /\ sstage = "done" =>
        /\ lstage = "done" /\ rstage = "done"
        /\ <<"orch", <<>>>> \notin views_tx
        /\ orch \in {"await_storage", "final_counts", "done"}
    /\ <<"orch", <<>>>> \notin views_tx => lstage = "done" /\ rstage = "done"

\* the receive loop ended after Views of both workers went through
C2_Witness ==
    /\ sstage = "done"
    /\ \E k \in DOMAIN sent : k[1] = "local"
    /\ \E k \in DOMAIN sent : k[1] = "remote"

\* C3: under fair scheduling, once the walker's sequence has ended the run
\* completes: both workers finish, the orchestrator drops its sender, the
\* storage worker's loop ends and the final counts are reported.
C3_RunTerminates ==
    (git_dirs = "end") ~>
        (/\ orch = "done" /\ counts # None
         /\ lstage = "done" /\ rstage = "done" /\ sstage = "done"
         /\ <<"orch", <<>>>> \notin views_tx)

\* a run with Views of both workers that reported its counts
C3_Witness ==
    /\ git_dirs = "end" /\ orch = "done" /\ counts # None
    /\ \E k \in DOMAIN sent : k[1] = "local"
    /\ \E k \in DOMAIN sent : k[1] = "remote"

\* no two Views handed to the Storage channel have the same host and location
NoTwoViewsPerKey ==
    \A k1, k2 \in DOMAIN sent : Key(sent[k1]) = Key(sent[k2]) => k1 = k2

\* when the run is over each inspection has its View on record
EachInspectionHasItsView ==
    orch = "done" =>
        /\ \A t \in DOMAIN ltasks :
            Abs(t[1]) \in repos =>
                /\ <<"local", t>> \in DOMAIN sent
                /\ sent[<<"local", t>>].link = Fs(t[1])
        /\ \A e \in DOMAIN rtasks :
                /\ <<"remote", e>> \in DOMAIN sent
                /\ sent[<<"remote", e>>].link = Net(rtasks[e].url)

\* no search path equals or lies under another one of the list
DisjointRoots ==
    \A i, j \in 1..Len(search_paths) :
        i # j => ~IsPrefix(search_paths[i], search_paths[j])

\* C4 as stated: whatever the search paths, the follow flag and the
\* filesystem, no two Views of a run share host and location, and every
\* location inspected has a View.
C4_OncePerLocation == NoTwoViewsPerKey /\ EachInspectionHasItsView

\* C4, amended: one View is sent per directory the walker returned that
\* passes the probe and one per distinct address; no two Views share host
\* and location when links are not followed and no search path equals or
\* contains another, and no two Views of addresses ever do.
C4_OncePerYield ==
    /\ EachInspectionHasItsView
    /\ (~follow /\ DisjointRoots) => NoTwoViewsPerKey
    /\ \A k1, k2 \in DOMAIN sent :
        (k1[1] = "remote" /\ Key(sent[k1]) = Key(sent[k2])) => k1 = k2

\* a finished run on disjoint roots without followed links that sent
\* Views of two directories and of an address
C4_Witness ==
    /\ orch = "done" /\ ~follow /\ DisjointRoots
    /\ Cardinality({k \in DOMAIN sent : k[1] = "local"}) >= 2
    /\ \E k \in DOMAIN sent : k[1] = "remote"

\* C5: a finished future of a directory that passes the probe has sent one
\* View for that directory, carrying the inspector's facts, or None when
\* the extraction failed; before it finishes it has sent none.
C5_ViewSentRegardless ==
    \A t \in DOMAIN ltasks :
        Abs(t[1]) \in repos =>
            IF ltasks[t].pc = "done"
            THEN /\ <<"local", t>> \in DOMAIN sent
                 /\ sent[<<"local", t>>] =
                        [host |-> Host, link |-> Fs(t[1]),
                         repo |-> facts[Fs(Abs(t[1]))]]
            ELSE <<"local", t>> \notin DOMAIN sent

\* the View of a repository whose extraction failed was sent and stored
C5_Witness ==
    \E t \in DOMAIN ltasks :
        /\ Abs(t[1]) \in repos /\ facts[Fs(Abs(t[1]))] = None
        /\ ltasks[t].pc = "done"
        /\ <<"local", t>> \in DOMAIN stasks
        /\ sent[<<"local", t>>].repo = None

\* C6: a directory that fails the probe produces nothing: no View of it is
\* sent, no address is sent on its behalf, it is not in the locals set, and
\* its future ends right after the probe.
C6_NonRepoSilent ==
    \A t \in DOMAIN ltasks :
        Abs(t[1]) \notin repos =>
            /\ ltasks[t].pc \in {"probe", "done"}
            /\ <<"local", t>> \notin DOMAIN sent
            /\ \A k \in DOMAIN sent : sent[k].link # Fs(t[1])
            /\ \A e \in DOMAIN urls_sent : <<e[1], e[2]>> # t
            /\ Fs(t[1]) \notin locals

\* the run is over, a directory with facts on offer failed the probe, and
\* another directory's View was sent
C6_Witness ==
    /\ orch = "done"
    /\ \E t \in DOMAIN ltasks :
        /\ Abs(t[1]) \notin repos /\ facts[Fs(Abs(t[1]))] # None
        /\ ltasks[t].pc = "done"
    /\ \E k \in DOMAIN sent : k[1] = "local"

\* C7: failed stores do not stop the storage worker or the run: when the
\* run is over every View sent was passed to store_view exactly once,
\* whether or not a store failed, every View the store accepts is in the
\* table, and nothing panicked.
C7_StoreFailureContained ==
    /\ sstage \in {"run", "done"}
    /\ \A k \in DOMAIN stasks : stasks[k].tries <= 1
    /\ orch = "done" =>
        /\ ~panicked /\ sstage = "done" /\ counts # None
        /\ DOMAIN stasks = DOMAIN sent
        /\ \A k \in DOMAIN stasks : stasks[k].pc = "done" /\ stasks[k].tries = 1
        /\ \A k \in DOMAIN sent :
            sent[k].link \notin bad_rows => Key(sent[k]) \in Keys(db)

\* the run is over, a store failed and stores of other Views succeeded
C7_Witness ==
    /\ orch = "done"
    /\ \E k \in DOMAIN stasks : stasks[k].pc = "done" /\ ~stasks[k].ok
    /\ Cardinality({k \in DOMAIN stasks : stasks[k].pc = "done" /\ stasks[k].ok}) >= 2

\* C8: a finished inspection of an address has put Net{address} into
\* remotes_ok when the inspector returned facts and into remotes_err when it
\* did not, never into both, and has sent a View of it with those facts;
\* when the run is over the two sets are disjoint and together hold the
\* addresses forwarded.
C8_RemoteClassified ==
    /\ \A e \in DOMAIN rtasks :
        LET l == Net(rtasks[e].url) IN
        rtasks[e].pc = "done" =>
            /\ l \in remotes_ok <=> facts[l] # None
            /\ l \in remotes_err <=> facts[l] = None
            /\ <<"remote", e>> \in DOMAIN sent
            /\ sent[<<"remote", e>>] = [host |-> Host, link |-> l, repo |-> facts[l]]
    /\ \A l \in remotes_ok \cup remotes_err :
        \E e \in DOMAIN rtasks : rtasks[e].pc = "done" /\ l = Net(rtasks[e].url)
    /\ orch = "done" =>
        /\ remotes_ok \cap remotes_err = {}
        /\ remotes_ok \cup remotes_err = {Net(u) : u \in Forwarded}

\* the run is over with an address in each set
C8_Witness ==
    /\ orch = "done"
    /\ remotes_ok # {} /\ remotes_err # {}
    /\ \E k \in DOMAIN sent : k[1] = "remote" /\ sent[k].repo = None

\* C9: when the final counts are reported the Storage channel is empty and
\* every View that was sent has been received and passed to store_view.
C9_NoViewLost ==
    counts # None =>
        /\ views = <<>>
        /\ \A k \in DOMAIN sent :
            k \in DOMAIN stasks /\ stasks[k].pc = "done" /\ stasks[k].tries >= 1

\* counts reported after Views of both workers were stored
C9_Witness ==
    /\ counts # None
    /\ \E k \in DOMAIN stasks : k[1] = "local" /\ stasks[k].ok
    /\ \E k \in DOMAIN stasks : k[1] = "remote" /\ stasks[k].ok

\* the walker never pushed the entries of a directory named like the marker
MatchedNeverEnumerated == \A d \in enumerated : file_name(d) # Some(Marker)

\* C10 as stated: a matched directory is returned and its entries are never
\* enumerated, so of a marker directory and a marker directory nested in it
\* only the outer one is returned.
C10_OnlyOuterReported ==
    /\ MatchedNeverEnumerated
    /\ \A y1, y2 \in Yielded : ~IsProperPrefix(Abs(y1), Abs(y2))

\* C10, amended: a matched directory is returned and its entries are never
\* enumerated; a directory nested in a returned one is returned only when a
\* search path or the target of a followed link lies inside the returned
\* directory.
C10_MatchedIsLeaf ==
    /\ MatchedNeverEnumerated
    /\ \A y \in Yielded : file_name(y) = Some(Marker) /\ y \notin ignore_paths
    /\ \A y1, y2 \in Yielded :
        IsProperPrefix(Abs(y1), Abs(y2)) =>
            \E r \in seeds : /\ IsProperPrefix(Abs(y1), Abs(r))
                             /\ IsPrefix(Abs(r), Abs(y2))

\* the walk of /r is over: /r and /r/p were enumerated, /r/.git and
\* /r/p/.git were returned and the marker directory nested in /r/.git was not
C10_Witness ==
    /\ git_dirs = "end"
    /\ search_paths = <<R>> /\ ioerr = {}
    /\ R \in enumerated /\ RP \in enumerated
    /\ RGit \in Yielded /\ RPGit \in Yielded /\ RGitGit \notin Yielded

\* a path the walker can open as a directory without any failure
PlainDir(p) ==
    /\ try_exists(p) /\ LKind(p) = "dir"
    /\ ~Fails("meta", p) /\ ~Fails("dir", p)
    /\ \A e \in Entries(p) : ~Fails("entry", e)

\* C11: a popped path that is a member of the ignore set is dropped with
\* nothing pushed, returned or enumerated, so nothing ignored is ever
\* returned or enumerated and an ignored search path gives no match; a
\* popped directory that is not a member, whatever ignored path it lies
\* under, is returned when it is named like the marker and has its entries
\* pushed otherwise.
C11_IgnoreExact ==
    /\ [](\A d \in enumerated \cup Yielded : d \notin ignore_paths)
    /\ [](search_paths[1] \in ignore_paths => Yielded = {} /\ enumerated = {})
    /\ [][frontier # <<>> =>
            LET p == Last(frontier) IN
            /\ p \in ignore_paths =>
                    /\ frontier' = Front(frontier)
                    /\ ltasks' = ltasks /\ enumerated' = enumerated
                    /\ seeds' = seeds
            /\ (p \notin ignore_paths /\ PlainDir(p)) =>
                    IF file_name(p) = Some(Marker)
                    THEN /\ \E id \in DOMAIN ltasks' \ DOMAIN ltasks : id[1] = p
                         /\ frontier' = Front(frontier)
                    ELSE /\ p \in enumerated'
                         /\ \E o \in Orders(Entries(p)) :
                                frontier' = Front(frontier) \o o
       ]_vars

\* the walk of / is over: /r, a member of the ignore set, was popped and
\* nothing under it was reached through it, while /r/p, reached through the
\* followed link /s/l, was enumerated and its marker directory returned
C11_Witness ==
    /\ git_dirs = "end"
    /\ search_paths = <<Root>> /\ ignore_paths = {R} /\ ioerr = {}
    /\ Root \in enumerated /\ S \in enumerated
    /\ R \notin enumerated /\ RGit \notin Yielded
    /\ RP \in enumerated /\ RPGit \in Yielded

\* C12: when the walker pops a symbolic link whose target exists, no
\* directory is returned in that step; with follow disabled nothing is
\* pushed, and with follow enabled exactly one path is pushed, which names
\* the link's target, so that what is explored next is the target.
C12_LinkFollowed ==
    [][(/\ frontier # <<>>
        /\ Last(frontier) \notin ignore_paths
        /\ try_exists(Last(frontier))
        /\ LKind(Last(frontier)) = "link"
        /\ ioerr = {}) =>
            LET p == Last(frontier) IN
            /\ ltasks' = ltasks
            /\ IF ~follow THEN frontier' = Front(frontier)
               ELSE /\ Len(frontier') = Len(frontier)
                    /\ Front(frontier') = Front(frontier)
                    /\ Abs(Last(frontier')) = LinkDest(Abs(p))
      ]_vars

\* the nodes of the filesystem and where each leads: a directory to its
\* entries, a link to its target as the OS resolves it
Nodes == DirPaths \cup FilePaths \cup DOMAIN links
Succ(a) ==
    IF a \in DOMAIN links THEN {LinkDest(a)} \cap Nodes
    ELSE {b \in Nodes : b # Root /\ Parent(b) = a}
RECURSIVE ReachFrom(_, _)
ReachFrom(set, n) ==
    IF n = 0 THEN set
    ELSE ReachFrom(set \cup UNION {Succ(a) : a \in set}, n - 1)
\* some node leads back to itself
LinkCycle == \E a \in Nodes : a \in ReachFrom(Succ(a), Cardinality(Nodes))

\* the walker cannot take its next step within the model's bounds
AtBound ==
    /\ git_dirs = "open" /\ frontier # <<>>
    /\ \A o \in Visit(Last(frontier)) :
        \/ o.yield # None /\ Cardinality(DOMAIN ltasks) >= MaxDirs
        \/ Len(frontier) - 1 + Len(o.push) > MaxFrontier

\* C13: when links are not followed, or the links of the filesystem form
\* no cycle, the walk ends: the frontier empties and the sequence of
\* returned directories is over (or the walk has outgrown the bounds).
C13_WalkEnds ==
    (~follow \/ ~LinkCycle) => <>(git_dirs = "end" \/ AtBound)

\* the paths the walker pushed: the search paths opened, the targets of
\* followed links and the entries of the enumerated directories
Pushed ==
    seeds \cup UNION {{e \in Entries(d) : ~Fails("entry", e)} : d \in enumerated}

\* C14: a path whose metadata or entries cannot be read is neither
\* enumerated nor, for metadata, returned, and nothing else is lost: when the
\* walk is over every other pushed directory has been returned or
\* enumerated, and when the run is over every returned directory that passes
\* the probe has its View sent and handed to the store, the counts are
\* reported and nothing panicked.
C14_FailureContained ==
    /\ \A d \in enumerated : ~Fails("meta", d) /\ ~Fails("dir", d)
    /\ \A y \in Yielded : ~Fails("meta", y)
    /\ git_dirs = "end" =>
        \A q \in Pushed :
            (/\ q \notin ignore_paths /\ try_exists(q) /\ LKind(q) = "dir"
             /\ ~Fails("meta", q)) =>
                IF file_name(q) = Some(Marker) THEN q \in Yielded
                ELSE Fails("dir", q) \/ q \in enumerated
    /\ orch = "done" =>
        /\ ~panicked /\ counts # None /\ git_dirs = "end"
        /\ \A t \in DOMAIN ltasks :
            Abs(t[1]) \in repos =>
                /\ <<"local", t>> \in DOMAIN stasks
                /\ stasks[<<"local", t>>].pc = "done"
                /\ Fs(t[1]) \notin bad_rows => <<Host, Fs(t[1])>> \in Keys(db)

\* the run on /r is over: /r/p could not be enumerated, nothing under it
\* was returned, and the repository /r/.git next to it was returned,
\* inspected and stored
C14_Witness ==
    /\ orch = "done" /\ ioerr = {<<"dir", RP>>} /\ search_paths = <<R>>
    /\ R \in enumerated /\ RP \notin enumerated /\ RPGit \notin Yielded
    /\ RGit \in Yielded
    /\ \E r \in DOMAIN db : r.link = Fs(RGit) /\ r.repo # None

\* C15: the table never holds two rows of the same host and location, and
\* when a run on the table an earlier run left is over, the table is what
\* that earlier run left, whatever the order of the upserts.
C15_RerunIdempotent ==
    /\ \A r1, r2 \in DOMAIN db : Key(r1) = Key(r2) => r1 = r2
    /\ \A r \in DOMAIN db : db[r] = 1
    /\ (orch = "done" /\ past # <<>>) => db = Last(past)

\* the second run is over: both runs stored Views of two directories and of
\* an address, and the second run made its upserts on the rows of the first
C15_Witness ==
    /\ orch = "done" /\ past # <<>>
    /\ Cardinality(DOMAIN Last(past)) >= 3
    /\ \E k \in DOMAIN stasks : k[1] = "local" /\ stasks[k].ok
    /\ \E k \in DOMAIN stasks : k[1] = "remote" /\ stasks[k].ok

\* the View of link was handed to the store by the store future k
StoredBy(k, link) ==
    /\ k \in DOMAIN sent /\ sent[k].link = link
    /\ k \in DOMAIN stasks /\ stasks[k].pc = "done" /\ stasks[k].tries = 1

\* the walk is over and every returned directory and every forwarded
\* address whose inspection returns has had its View sent and stored
SiblingsServed ==
    /\ git_dirs = "end"
    /\ \A t \in DOMAIN ltasks :
        (Abs(t[1]) \in repos /\ Returns(Fs(t[1]))) =>
            /\ ltasks[t].pc = "done"
            /\ StoredBy(<<"local", t>>, Fs(t[1]))
    /\ \A e \in DOMAIN urls_sent :
        Returns(Net(urls_sent[e])) =>
            StoredBy(<<"remote", e>>, Net(urls_sent[e]))

\* C16: when the inspection of one location never returns, every other
\* directory that passes the probe and every other forwarded address still
\* gets its View sent and handed to the store, and the hung location's task
\* alone stays pending.
C16_HangIsolated ==
    /\ <>SiblingsServed
    /\ [](\A t \in DOMAIN ltasks : ~Returns(Fs(t[1])) => ltasks[t].pc # "done")
    /\ [](\A e \in DOMAIN rtasks : ~Returns(Net(rtasks[e].url)) => rtasks[e].pc # "done")

\* an inspection hangs while a sibling directory's View and an address's
\* View have been stored
C16_Witness ==
    /\ SiblingsServed
    /\ \/ \E t \in DOMAIN ltasks : ~Returns(Fs(t[1])) /\ ltasks[t].pc = "view"
       \/ \E e \in DOMAIN rtasks : ~Returns(Net(rtasks[e].url)) /\ rtasks[e].pc = "view"
    /\ \E k \in DOMAIN stasks : k[1] = "local" /\ stasks[k].pc = "done"
    /\ \E k \in DOMAIN stasks : k[1] = "remote" /\ stasks[k].pc = "done"

\* a branch of g has a leaf without any root commit
ZeroRootLeaf(g) ==
    /\ g.cmd_err = {}
    /\ \E name \in DOMAIN g.leaves : g.parents0[g.leaves[name]] = {}

\* what git prints for the location of a View
RawOf(v) == git[IF v.link.tag = "Fs" THEN Fs(Abs(v.link.dir)) ELSE v.link]

\* C17: every branch in the facts of a View sent or stored has at least
\* one root; the View of a location where a branch leaf has no root commit
\* carries no facts, and it is still sent and handed to the store, the run
\* ending with its counts and without a panic.
C17_BranchRoots ==
    /\ \A k \in DOMAIN sent :
        /\ sent[k].repo # None =>
                \A b \in DOMAIN sent[k].repo[1].branches :
                    sent[k].repo[1].branches[b].roots # {}
        /\ ZeroRootLeaf(RawOf(sent[k])) => sent[k].repo = None
    /\ \A r \in DOMAIN db :
        r.repo # None =>
            \A b \in DOMAIN r.repo[1].branches : r.repo[1].branches[b].roots # {}
    /\ orch = "done" =>
        /\ ~panicked /\ counts # None
        /\ \A t \in DOMAIN ltasks :
            Abs(t[1]) \in repos => StoredBy(<<"local", t>>, Fs(t[1]))
        /\ \A e \in DOMAIN rtasks : StoredBy(<<"remote", e>>, Net(rtasks[e].url))

\* the run is over: the View of a repository with a rootless branch leaf
\* was stored without facts next to a View whose branches have roots
C17_Witness ==
    /\ orch = "done"
    /\ \E r \in DOMAIN db : ZeroRootLeaf(RawOf(r)) /\ r.repo = None
    /\ \E r \in DOMAIN db :
        /\ r.repo # None
        /\ Cardinality(DOMAIN r.repo[1].branches) = 2

\* C18: the temporary directory of an address's inspection is held exactly
\* while the inspection is in progress: it is released when the inspection
\* has returned, whether the clone failed, the reading of the clone failed
\* or both succeeded, and none is held when the run is over.
C18_TempReleased ==
    /\ \A j \in DOMAIN rtasks : rtasks[j].tmp <=> rtasks[j].pc = "view"
    /\ (rstage = "done" \/ orch = "done") => \A j \in DOMAIN rtasks : ~rtasks[j].tmp

\* the run is over after the inspections of two addresses, one whose clone
\* failed and one that succeeded, and no directory is held
C18_Witness ==
    /\ orch = "done"
    /\ \E j \in DOMAIN rtasks :
        /\ rtasks[j].repo = None /\ ~rtasks[j].tmp
        /\ ~git[Net(rtasks[j].url)].clone_ok
    /\ \E j \in DOMAIN rtasks : rtasks[j].repo # None /\ ~rtasks[j].tmp

\* C19: in every state where the remotes worker is complete, the locals
\* worker is complete and has dropped its address sender, the address
\* channel is empty and every address sent on it has been inspected.
C19_RemotesAfterLocals ==
    rstage = "done" =>
        /\ lstage = "done" /\ ~urls_tx /\ urls = <<>>
        /\ git_dirs = "end" /\ AllDone(ltasks)
        /\ \A e \in DOMAIN urls_sent :
            e \in DOMAIN rtasks /\ rtasks[e].pc = "done"

\* the remotes worker is complete after inspecting two addresses that two
\* directories' futures sent
C19_Witness ==
    /\ rstage = "done"
    /\ Cardinality(DOMAIN rtasks) = 2
    /\ Cardinality({<<e[1], e[2]>> : e \in DOMAIN urls_sent}) = 2

\* C20: a View is sent by the future that inspected its location, after the
\* inspector's call returned and with what it returned; the future of an
\* inspection still in progress has no View in the channel or at the store.
C20_SentAfterInspection ==
    /\ \A k \in DOMAIN sent :
        IF k[1] = "local"
        THEN /\ k[2] \in DOMAIN ltasks /\ ltasks[k[2]].pc = "done"
             /\ sent[k] = view(Host, Fs(k[2][1]))
             /\ sent[k].repo = ltasks[k[2]].repo
        ELSE /\ k[2] \in DOMAIN rtasks /\ rtasks[k[2]].pc = "done"
             /\ sent[k] = view(Host, Net(rtasks[k[2]].url))
             /\ sent[k].repo = rtasks[k[2]].repo
    /\ \A k \in Range(views) \cup DOMAIN stasks : k \in DOMAIN sent
    /\ \A t \in DOMAIN ltasks :
        ltasks[t].pc \in {"probe", "view"} => <<"local", t>> \notin DOMAIN sent
    /\ \A e \in DOMAIN rtasks :
        rtasks[e].pc = "view" => <<"remote", e>> \notin DOMAIN sent

\* a directory and an address are being inspected while the View of
\* another directory is in the channel or at the store
C20_Witness ==
    /\ \E t \in DOMAIN ltasks : ltasks[t].pc = "view"
    /\ \E e \in DOMAIN rtasks : rtasks[e].pc = "view"
    /\ \E k \in Range(views) \cup DOMAIN stasks :
        k[1] = "local" /\ sent[k].repo # None

\* the directories a walk from root is to report when the tree has no
\* links: those under root, root included, named as the target, that are
\* not ignored and have no ancestor from root down that is ignored or is
\* named as the target
Expected(root) ==
    {d \in DirPaths :
        /\ IsPrefix(root, d)
        /\ file_name(d) = Some(Marker)
        /\ d \notin ignore_paths
        /\ \A a \in DirPaths :
            (IsPrefix(root, a) /\ IsProperPrefix(a, d)) =>
                (a \notin ignore_paths /\ file_name(a) # Some(Marker))}

\* C21: on a tree without links where every operation succeeds, the walk
\* of one root never reports a directory outside the expected set, never
\* reports a directory twice, and has reported exactly the expected set
\* when it ends.
C21_WalkMatchesReference ==
    (links = NoLinks /\ ioerr = {} /\ Len(search_paths) = 1) =>
        /\ Yielded \subseteq Expected(search_paths[1])
        /\ \A d \in Yielded : Yields(d) = 1
        /\ git_dirs = "end" => Yielded = Expected(search_paths[1])

\* the walk of / with /r/p ignored has ended, having reported /r/.git and
\* /s/.git and neither /r/.git/.git, below a match, nor /r/p/.git, below
\* an ignored directory
C21_Witness ==
    /\ links = NoLinks /\ ioerr = {} /\ git_dirs = "end"
    /\ search_paths = <<Root>> /\ ignore_paths = {RP}
    /\ Yielded = {RGit, SGit}

\* C22: no send has failed, and in every state where a future is at a
\* send its receiver is alive: the address receiver and the View receiver
\* while a directory's future is in its loop over the addresses or at the
\* send of its View, the View receiver while an address is inspected.
C22_SendsNeverFail ==
    /\ ~panicked
    /\ \A i \in DOMAIN ltasks : ltasks[i].pc = "urls" => (urls_rx /\ views_rx)
    /\ \A j \in DOMAIN rtasks : rtasks[j].pc = "view" => views_rx
    /\ \A k \in DOMAIN sent : k \in Range(views) \cup DOMAIN stasks
    /\ \A e \in DOMAIN urls_sent : e \in Range(urls) \cup DOMAIN rtasks

\* the locals worker is complete and has dropped its senders, its Views
\* and addresses were queued, and the future of an address is about to
\* send its View while the orchestrator and the remotes worker hold the
\* only senders left
C22_Witness ==
    /\ lstage = "done" /\ ~urls_tx
    /\ \E k \in DOMAIN sent : k[1] = "local"
    /\ \E k \in DOMAIN sent : k[1] = "remote"
    /\ \E j \in DOMAIN rtasks : rtasks[j].pc = "view"
    /\ views_rx /\ urls_rx /\ ~panicked

\* the addresses whose inspection was started
Inspected == {rtasks[e].url : e \in DOMAIN rtasks}

\* a step of the remotes worker: it takes an address from the channel or
\* completes an inspection
RemotesWorkerStep ==
    rtasks' # rtasks \/ remotes_ok' # remotes_ok \/ remotes_err' # remotes_err

\* what a step may do to the address channel and the set of addresses seen
NoWorkAdded ==
    /\ RemotesWorkerStep =>
        /\ unique' = unique /\ urls_sent' = urls_sent
        /\ urls' = urls \/ (urls # <<>> /\ urls' = Tail(urls))
    /\ (\E j \in DOMAIN rtasks : rtasks[j].pc = "view" /\ rtasks'[j].pc = "done") =>
        urls' = urls
    /\ orch' = "done" => (Inspected = Referenced)'

\* C23: a step of the remotes worker sends nothing on the address channel
\* and leaves the set of addresses seen as it was, the completion of an
\* inspection leaves the channel unchanged, and when the run is over the
\* addresses inspected are exactly those the usable local repositories'
\* facts name.
C23_RemotesAddNoWork == [][NoWorkAdded]_vars

\* the run is over, an address was inspected with success, and its facts
\* name an address that was never inspected
C23_Witness ==
    /\ orch = "done"
    /\ \E j \in DOMAIN rtasks :
        /\ rtasks[j].repo # None
        /\ \E u \in Values(rtasks[j].repo[1].remotes) : u \notin Inspected

\* the locations of the Views the directories' futures sent
LocalsSent == {sent[k].link : k \in {x \in DOMAIN sent : x[1] = "local"}}

\* C24: once the final counts are reported, the set of local links seen is
\* the set of locations of the Views the locals worker sent, which is the
\* set of reported directories that are repositories, whether their facts
\* were read or not; the reported number is its size; and both workers
\* that insert into the counted sets are complete with all their futures.
C24_FinalLocals ==
    counts # None =>
        /\ locals = LocalsSent
        /\ locals = {Fs(t[1]) : t \in {x \in DOMAIN ltasks : is_repo(x[1])}}
        /\ counts[1].locals = Cardinality(LocalsSent)
        /\ counts[1].remotes_ok = Cardinality(remotes_ok)
        /\ counts[1].remotes_err = Cardinality(remotes_err)
        /\ lstage = "done" /\ git_dirs = "end" /\ AllDone(ltasks)
        /\ rstage = "done" /\ urls = <<>> /\ AllDone(rtasks)
        /\ sstage = "done"

\* the counts are reported after the same repository, whose facts could
\* not be read, was reported under two roots: two Views were sent and one
\* link is counted
C24_Witness ==
    /\ counts # None /\ counts[1].locals = 1
    /\ Cardinality({x \in DOMAIN sent : x[1] = "local"}) = 2
    /\ \A l \in locals : facts[l] = None

====
